---- MODULE Spec2Model ----
(***************************************************************************)
(* rmcloud2pdf (main.py): one run of the driver.  The remote listing is    *)
(* retrieved and parsed, the directory tree is mirrored under the output   *)
(* root, and every listed file is fetched ('rmapi get') and its archive    *)
(* converted (process_rmdoc_file).                                         *)
(*                                                                         *)
(* Strings are sequences of one-character strings, so that startswith,     *)
(* endswith, strip, split, stem and replace are computed as Python does.   *)
(* Local paths are kept relative to os.path.abspath(args.output).          *)
(***************************************************************************)
EXTENDS Integers, Sequences, FiniteSets, TLC

\* ------------------------------------------------------------------ bounds
\* longest page-id sequence of a manifest
MaxPages == 3
\* most lines of a listing text handed to the parser on its own
MaxLines == 3

\* ------------------------------------------------------------- str methods
\* Python's None: no string, so no sequence of characters
None == <<"None">>
NL == "\n"
Whitespace == {" ", NL, "\t"}

startswith(s, p) ==
    /\ Len(s) >= Len(p)
    /\ SubSeq(s, 1, Len(p)) = p

endswith(s, p) ==
    /\ Len(s) >= Len(p)
    /\ SubSeq(s, Len(s) - Len(p) + 1, Len(s)) = p

RECURSIVE lstrip(_, _)
lstrip(s, chars) ==
    IF s # <<>> /\ Head(s) \in chars THEN lstrip(Tail(s), chars) ELSE s

RECURSIVE rstrip(_, _)
rstrip(s, chars) ==
    IF s # <<>> /\ s[Len(s)] \in chars
        THEN rstrip(SubSeq(s, 1, Len(s) - 1), chars)
        ELSE s

strip(s) == rstrip(lstrip(s, Whitespace), Whitespace)

\* s.split(c): the pieces between the occurrences of c (never empty: [''])
RECURSIVE split(_, _)
split(s, c) ==
    IF \E i \in 1..Len(s) : s[i] = c
        THEN LET i == CHOOSE j \in 1..Len(s) :
                        s[j] = c /\ \A k \in 1..(j - 1) : s[k] # c
             IN  <<SubSeq(s, 1, i - 1)>> \o split(SubSeq(s, i + 1, Len(s)), c)
        ELSE <<s>>

\* s.replace(old, ''): every occurrence of old removed, scanning left to right
RECURSIVE remove_all(_, _)
remove_all(s, old) ==
    IF s = <<>> THEN <<>>
    ELSE IF startswith(s, old)
        THEN remove_all(SubSeq(s, Len(old) + 1, Len(s)), old)
        ELSE <<Head(s)>> \o remove_all(Tail(s), old)

\* -------------------------------------------------------- os.path, pathlib
\* position of the last c of s, 0 when there is none
rfind(s, c) ==
    IF \E i \in 1..Len(s) : s[i] = c
        THEN CHOOSE i \in 1..Len(s) :
                s[i] = c /\ \A k \in (i + 1)..Len(s) : s[k] # c
        ELSE 0

basename(p) == SubSeq(p, rfind(p, "/") + 1, Len(p))

\* os.path.dirname of a path below the output root (<<>> is the root itself)
dirname(p) == SubSeq(p, 1, rfind(p, "/") - 1)

\* os.path.join(a, b) for a relative b
join(a, b) == IF a = <<>> THEN b ELSE a \o <<"/">> \o b

\* Path(p).stem: the final component without its last suffix
stem(p) ==
    LET n == basename(p)
        i == rfind(n, ".")
    IN  IF i > 1 /\ i < Len(n) THEN SubSeq(n, 1, i - 1) ELSE n

\* a directory together with its ancestors, as os.makedirs creates them
RECURSIVE makedirs(_)
makedirs(p) ==
    IF p = <<>> THEN {<<>>} ELSE {p} \cup makedirs(dirname(p))

\* ---------------------------------------------------------------- suffixes
RMDOC == <<".", "r", "m", "d", "o", "c">>
PDF == <<".", "p", "d", "f">>
RM == <<".", "r", "m">>
CONTENT == <<".", "c", "o", "n", "t", "e", "n", "t">>
METADATA == <<".", "m", "e", "t", "a", "d", "a", "t", "a">>
PAGEDATA == <<".", "p", "a", "g", "e", "d", "a", "t", "a">>
TAG_D == <<"[", "d", "]", " ">>
TAG_F == <<"[", "f", "]", " ">>

\* ------------------------------------------------------- parse_rmapi_find
\* the path stripped of surrounding whitespace after the slice
RECURSIVE select_tagged_stripping_paths(_, _)
select_tagged_stripping_paths(lines, tag) ==
    IF lines = <<>> THEN <<>>
    ELSE LET line == Head(lines)
             rest == select_tagged_stripping_paths(Tail(lines), tag)
         IN  IF line # <<>> /\ startswith(line, tag)
                 THEN <<strip(SubSeq(line, 5, Len(line)))>> \o rest
                 ELSE rest

\* the slice taken from the separating space on: line[3:]
RECURSIVE select_tagged_with_separator(_, _)
select_tagged_with_separator(lines, tag) ==
    IF lines = <<>> THEN <<>>
    ELSE LET line == Head(lines)
             rest == select_tagged_with_separator(Tail(lines), tag)
         IN  IF line # <<>> /\ startswith(line, tag)
                 THEN <<SubSeq(line, 4, Len(line))>> \o rest
                 ELSE rest

\* the paths of the lines that start with tag, in order (line[4:])
RECURSIVE select_tagged(_, _)
select_tagged(lines, tag) ==
    IF lines = <<>> THEN <<>>
    ELSE LET line == Head(lines)
             rest == select_tagged(Tail(lines), tag)
         IN  IF line # <<>> /\ startswith(line, tag)
                 THEN <<SubSeq(line, 5, Len(line))>> \o rest
                 ELSE rest

\* (directories, files) of a listing text
parse_rmapi_find(rmapi_find_output) ==
    LET lines == split(strip(rmapi_find_output), NL)
    IN  <<select_tagged(lines, TAG_D), select_tagged(lines, TAG_F)>>

\* the archive path of a remote file, below the output root
rmdoc_path(file) == lstrip(file, {"/"}) \o RMDOC

\* the output document's path derived from an archive path
final_pdf_path_of(rmdoc_file_path) ==
    join(dirname(rmdoc_file_path),
         remove_all(basename(rmdoc_file_path), RMDOC) \o PDF)

\* ------------------------------------------------- archives (the inputs)
\* An extracted archive is the os.walk enumeration of its tree: the
\* extraction root first, then the subdirectory, each with its file names
\* in the order the filesystem enumerates them.  The page sources of the
\* subdirectory are taken in every order.  The other entries are taken in
\* one place: no search below can tell their orders apart, since at most
\* one entry ends in '.content', none of the root ends in '.rm', only "r"
\* of the root ends in none of the four suffixes of the passthrough search,
\* and no search matches a '.pdf' of the subdirectory.  The manifest comes
\* with its '.metadata' entry, as in the archives 'rmapi get' delivers.
Stem == <<"x">>
SubDir == <<"x">>
PageIds == {<<"a">>, <<"b">>, <<"a", "b">>}
RootOrder == <<Stem \o CONTENT, Stem \o METADATA, Stem \o PDF, <<"r">>>>
PageSources == {p \o RM : p \in PageIds}

\* the sequences without repetition over S, of length at most n
InjSeqs(S, n) ==
    {s \in UNION {[1..k -> S] : k \in 0..n} :
        \A i, j \in 1..Len(s) : i # j => s[i] # s[j]}

Walk(r, s) ==
    <<[root |-> <<>>, files |-> r]>>
        \o (IF s = <<>> THEN <<>> ELSE <<[root |-> SubDir, files |-> s]>>)

RootFiles ==
    {SelectSeq(RootOrder, LAMBDA n : n \in rs) :
        rs \in {r \in SUBSET {RootOrder[i] : i \in DOMAIN RootOrder} :
                    Stem \o CONTENT \in r <=> Stem \o METADATA \in r}}

SubFiles ==
    {pre \o s : pre \in {<<>>, <<Stem \o PDF>>},
                s \in InjSeqs(PageSources, Cardinality(PageSources))}

Trees == {Walk(t[1], t[2]) : t \in RootFiles \X SubFiles}

\* The manifest as json.load returns it, by what line 302 can do with it:
\*   pages       content_data['cPages']['pages'] is a list of {'id': ...}
\*   noCPages    no key 'cPages'                       (KeyError)
\*   noPages     'cPages' has no key 'pages'           (KeyError)
\*   noId        a page descriptor has no key 'id'     (KeyError)
\*   notMapping  'cPages' is not a mapping             (TypeError)
\*   invalid     the entry is not JSON                 (json.load raises)
KeyErrorShapes == {"noCPages", "noPages", "noId"}
Manifests ==
    {[shape |-> "pages", ids |-> s] :
        s \in UNION {[1..k -> PageIds] : k \in 0..MaxPages}}
    \cup {[shape |-> sh, ids |-> <<>>] :
            sh \in KeyErrorShapes \cup {"notMapping", "invalid"}}

has_content(tree) ==
    \E i \in 1..Len(tree) : \E j \in 1..Len(tree[i].files) :
        endswith(tree[i].files[j], CONTENT)

NoManifest == [shape |-> "invalid", ids |-> <<>>]

Archives ==
    {[walk |-> t, manifest |-> m] : <<t, m>> \in
        {a \in Trees \X Manifests : has_content(a[1]) \/ a[2] = NoManifest}}

\* ------------------------------------------------------------ tree search
\* the entries of a tree in os.walk order, as paths below the extraction root
RECURSIVE walk_paths(_)
walk_paths(tree) ==
    IF tree = <<>> THEN <<>>
    ELSE [j \in 1..Len(tree[1].files) |-> join(tree[1].root, tree[1].files[j])]
            \o walk_paths(Tail(tree))

\* the first of the entries ps (in walk order) among those at the indexes
\* hit, None if there is none: the loops break at the first match
first_of(ps, hit) ==
    IF hit = {} THEN None
    ELSE ps[CHOOSE k \in hit : \A m \in hit : k <= m]

find_content(tree) ==
    LET ps == walk_paths(tree)
    IN  first_of(ps, {k \in DOMAIN ps : endswith(basename(ps[k]), CONTENT)})

\* a search that looks at the extraction root alone instead of walking
find_rm_at_root_only(tree, page_id) ==
    LET ps == walk_paths(<<tree[1]>>)
    IN  first_of(ps, {k \in DOMAIN ps :
                        /\ startswith(basename(ps[k]), page_id)
                        /\ endswith(basename(ps[k]), RM)})

find_rm(tree, page_id) ==
    LET ps == walk_paths(tree)
    IN  first_of(ps, {k \in DOMAIN ps :
                        /\ startswith(basename(ps[k]), page_id)
                        /\ endswith(basename(ps[k]), RM)})

\* a passthrough search that forgets the '.metadata' suffix
find_original_metadata_forgotten(tree) ==
    LET ps == walk_paths(tree)
    IN  first_of(ps, {k \in DOMAIN ps :
                        /\ ~endswith(basename(ps[k]), CONTENT)
                        /\ ~endswith(basename(ps[k]), PAGEDATA)
                        /\ ~endswith(basename(ps[k]), PDF)})

find_original(tree) ==
    LET ps == walk_paths(tree)
    IN  first_of(ps, {k \in DOMAIN ps :
                        /\ ~endswith(basename(ps[k]), CONTENT)
                        /\ ~endswith(basename(ps[k]), METADATA)
                        /\ ~endswith(basename(ps[k]), PAGEDATA)
                        /\ ~endswith(basename(ps[k]), PDF)})

\* os.path.exists(os.path.join(temp_extract_dir, name))
exists_at_root(tree, made, name) ==
    \/ name \in made
    \/ \E j \in 1..Len(tree[1].files) : tree[1].files[j] = name

\* an embedded-document test on the manifest's name instead of its stem
has_embedded_pdf_by_name(tree, content_file) ==
    exists_at_root(tree, {}, basename(content_file) \o PDF)

\* os.path.exists(pdf_file_path) of the embedded-document test
has_embedded_pdf(tree, content_file) ==
    exists_at_root(tree, {}, stem(content_file) \o PDF)

\* [page['id'] for page in content_data['cPages']['pages']]
page_ids_of(content_data) ==
    IF content_data.shape = "pages" THEN [err |-> "none", ids |-> content_data.ids]
    ELSE IF content_data.shape \in KeyErrorShapes
        THEN [err |-> "KeyError", ids |-> <<>>]
        ELSE [err |-> "TypeError", ids |-> <<>>]

\* a page loop that follows the enumeration of the tree: for each entry in
\* walk order, the page ids whose source it is
RECURSIVE ids_by_entry(_, _, _)
ids_by_entry(ps, ids, tree) ==
    IF ps = <<>> THEN <<>>
    ELSE SelectSeq(ids, LAMBDA id : find_rm(tree, id) = Head(ps))
            \o ids_by_entry(Tail(ps), ids, tree)

page_loop_by_enumeration(ids, tree) == ids_by_entry(walk_paths(tree), ids, tree)

\* the order in which the page loop visits the page ids
page_loop_order(ids, tree) == ids

\* pdf_pages after the page whose source was found (the append precedes rmc)
append_page(pages, pdf_page_path, converted) == Append(pages, pdf_page_path)

pdf_page_path_of(page_id) == page_id \o PDF

\* a return on fetch failure that leaves before the cleanup
download_finally_skipped_on_failure(dirs, d, how) ==
    IF how = "fetch failed" THEN dirs ELSE dirs \ {d}

\* the finally block of rmapi_download: shutil.rmtree(temp_dir)
download_finally(dirs, d, how) == dirs \ {d}

\* a cleanup that only the end of the page loop reaches
process_finally_after_merge_only(dirs, d, how) ==
    IF how = "merge" THEN dirs \ {d} ELSE dirs

\* the finally block of process_rmdoc_file: rmtree(temp_extract_dir, ignore_errors)
process_finally(dirs, d, how) == dirs \ {d}

\* ------------------------------------------------------------------ state
VARIABLES
    args,               \* parse_arguments(): ignore_dirs, sync_dirs
    listing,            \* what 'rmapi find .' prints when it succeeds
    cloud,              \* remote file path -> the archive 'rmapi get' delivers
    pc,                 \* position of the driver
    rmapi_find_out, rmapi_dir_list, rmapi_file_list,
    di,                 \* ensure_directories_exist: index of the next directory
    idx,                \* main loop: index of the current file
    localDirs,          \* directories below (and including) the output root
    rmdocs,             \* archive path -> archive, the .rmdoc files on disk
    outputs,            \* document path -> content, the .pdf files on disk
    tmpDirs,            \* the /tmp/<uuid> working directories that exist
    extractDirs,        \* the temp_extract_<uuid> directories that exist
    cwd,                \* current working directory: StartDir or a work dir
    uuids,              \* number of uuid4() values drawn
    temp_dir,           \* the working directory of the download under way
    original_dir,       \* os.getcwd() when rmapi_download was entered
    temp_extract_dir, walk, content_data,
    page_ids, pi, pdf_pages,
    made,               \* files 'rmc' wrote into the extraction root
    mirrorLog,          \* directories ensure_directories_exist created
    getLog,             \* file indexes handed to 'rmapi get', in order
    getFailed,          \* file indexes whose 'rmapi get' exited non-zero
    openLog,            \* file indexes whose archive was opened
    rmcLog,             \* 'rmc' invocations: file index, page id, source, ok
    mergeLog,           \* merge_pdfs calls: file index, pdf_list, ok
    reports             \* diagnostics printed: <<file index, what, detail>>

driverVars == <<pc, rmapi_find_out, rmapi_dir_list, rmapi_file_list, di, idx>>
inputVars == <<args, listing, cloud>>
diskVars == <<localDirs, rmdocs, outputs, tmpDirs, extractDirs, cwd, uuids>>
fileVars == <<temp_dir, original_dir, temp_extract_dir, walk, content_data,
              page_ids, pi, pdf_pages, made>>
logVars == <<mirrorLog, getLog, getFailed, openLog, rmcLog, mergeLog, reports>>
vars == <<inputVars, driverVars, diskVars, fileVars, logVars>>

\* ----------------------------------------------------------------- inputs
\* the directory the program is started in
StartDir == <<"orig">>

pN == <<"/", "N">>
pNQ == <<"/", "N", "/", "Q">>
pR == <<"/", "R">>
pM == <<"/", "M">>
\* a remote file whose own name contains the archive extension
pD == <<"/", "Q">> \o RMDOC

RECURSIVE text_of(_)
text_of(lines) ==
    IF lines = <<>> THEN <<>>
    ELSE IF Len(lines) = 1 THEN lines[1]
    ELSE lines[1] \o <<NL>> \o text_of(Tail(lines))

OneFileListing == text_of(<<TAG_D \o pN, TAG_F \o pNQ>>)
\* the last one is what 'rmapi find' hands back when it prints nothing
DriverListings ==
    {OneFileListing,
     text_of(<<TAG_D \o pN, TAG_D \o pM, TAG_F \o pNQ, TAG_F \o pR>>),
     text_of(<<TAG_F \o pR, <<>>, TAG_F \o pNQ, <<"?">>, <<>>>>),
     text_of(<<TAG_F \o pD>>),
     <<>>}

NoFilters == [ignore_dirs |-> {}, sync_dirs |-> {}]
Args ==
    {NoFilters,
     [ignore_dirs |-> {<<"N">>}, sync_dirs |-> {}],
     [ignore_dirs |-> {}, sync_dirs |-> {<<"R">>}]}

EmbeddedArchive ==
    [walk |-> Walk(<<Stem \o CONTENT, Stem \o METADATA, Stem \o PDF>>, <<>>),
     manifest |-> [shape |-> "pages", ids |-> << <<"a">> >>]]
NotebookArchive ==
    [walk |-> Walk(<<Stem \o CONTENT, Stem \o METADATA>>,
                   <<<<"b">> \o RM, <<"a">> \o RM>>),
     manifest |-> [shape |-> "pages", ids |-> << <<"a">>, <<"b">> >>]]
PayloadArchive ==
    [walk |-> Walk(<<Stem \o CONTENT, Stem \o METADATA, <<"r">>>>, <<>>),
     manifest |-> [shape |-> "noCPages", ids |-> <<>>]]
\* archives that end in a condition fatal to the one file: no manifest, a
\* page without source, a passthrough document without payload
ManifestlessArchive ==
    [walk |-> Walk(<<<<"r">>>>, <<>>), manifest |-> NoManifest]
SourcelessArchive ==
    [walk |-> Walk(<<Stem \o CONTENT, Stem \o METADATA>>, <<>>),
     manifest |-> [shape |-> "pages", ids |-> << <<"a">> >>]]
BarePayloadArchive ==
    [walk |-> Walk(<<Stem \o CONTENT, Stem \o METADATA>>, <<>>),
     manifest |-> [shape |-> "noCPages", ids |-> <<>>]]
BasicArchives ==
    {EmbeddedArchive, NotebookArchive, PayloadArchive, ManifestlessArchive,
     SourcelessArchive, BarePayloadArchive}

Range(f) == {f[i] : i \in DOMAIN f}
Empty == [x \in {} |-> None]
Put(f, k, v) == [x \in DOMAIN f \cup {k} |-> IF x = k THEN v ELSE f[x]]

\* what a previous run left below the output root: nothing, or the first
\* file's archive together with the document made from it
Leftovers(files) ==
    {[dirs |-> {}, rmdocs |-> Empty, outputs |-> Empty]}
    \cup (IF files = <<>> THEN {}
          ELSE LET p == rmdoc_path(files[1])
               IN  {[dirs |-> makedirs(dirname(p)),
                     rmdocs |-> Put(Empty, p, EmbeddedArchive),
                     outputs |-> Put(Empty, final_pdf_path_of(p),
                                     [kind |-> "copy", of |-> Stem \o PDF,
                                      by |-> 0])]})

InitRest(left) ==
    /\ pc = "find"
    /\ rmapi_find_out = None
    /\ rmapi_dir_list = <<>>
    /\ rmapi_file_list = <<>>
    /\ di = 1
    /\ idx = 1
    /\ localDirs = left.dirs
    /\ rmdocs = left.rmdocs
    /\ outputs = left.outputs
    /\ tmpDirs = {}
    /\ extractDirs = {}
    /\ cwd = StartDir
    /\ uuids = 0
    /\ temp_dir = 0
    /\ original_dir = StartDir
    /\ temp_extract_dir = 0
    /\ walk = <<>>
    /\ content_data = NoManifest
    /\ page_ids = <<>>
    /\ pi = 1
    /\ pdf_pages = <<>>
    /\ made = {}
    /\ mirrorLog = <<>>
    /\ getLog = <<>>
    /\ getFailed = {}
    /\ openLog = <<>>
    /\ rmcLog = <<>>
    /\ mergeLog = <<>>
    /\ reports = {}

\* whole runs over the basic archives, with and without filters and leftovers
InitDriver ==
    /\ listing \in DriverListings
    /\ args \in Args
    /\ cloud \in [Range(parse_rmapi_find(listing)[2]) -> BasicArchives]
    /\ \E left \in Leftovers(parse_rmapi_find(listing)[2]) : InitRest(left)

Init == InitDriver

\* the parser alone, over every text of at most MaxLines lines: well-formed
\* lines, an empty path, paths with whitespace at either end, an indented
\* line, an empty line and a line without tag
ParseLines ==
    {TAG_D \o pN, TAG_F \o pR, TAG_F, TAG_D \o pN \o <<" ">>,
     TAG_F \o <<" ", "R">>, <<" ">> \o TAG_F \o pR, <<>>, <<"?">>}
ParseTexts ==
    {text_of(ls) : ls \in UNION {[1..n -> ParseLines] : n \in 0..MaxLines}}
InitParse ==
    /\ listing \in ParseTexts
    /\ args = NoFilters
    /\ cloud = [f \in Range(parse_rmapi_find(listing)[2]) |-> EmbeddedArchive]
    /\ InitRest([dirs |-> {}, rmdocs |-> Empty, outputs |-> Empty])

\* process_rmdoc_file alone: the driver has fetched the one file of
\* OneFileListing, and the archive on disk is any archive within the bounds
InitProcess ==
    /\ listing = OneFileListing
    /\ args = NoFilters
    /\ cloud \in [{pNQ} -> Archives]
    /\ pc = "process"
    /\ rmapi_find_out = listing
    /\ rmapi_dir_list = parse_rmapi_find(listing)[1]
    /\ rmapi_file_list = parse_rmapi_find(listing)[2]
    /\ di = 2
    /\ idx = 1
    /\ localDirs = makedirs(<<"N">>)
    /\ rmdocs = Put(Empty, rmdoc_path(pNQ), cloud[pNQ])
    /\ outputs = Empty
    /\ tmpDirs = {}
    /\ extractDirs = {}
    /\ cwd = StartDir
    /\ uuids = 1
    /\ temp_dir = 1
    /\ original_dir = StartDir
    /\ temp_extract_dir = 0
    /\ walk = <<>>
    /\ content_data = NoManifest
    /\ page_ids = <<>>
    /\ pi = 1
    /\ pdf_pages = <<>>
    /\ made = {}
    /\ mirrorLog = <<<<"N">>>>
    /\ getLog = <<1>>
    /\ getFailed = {}
    /\ openLog = <<>>
    /\ rmcLog = <<>>
    /\ mergeLog = <<>>
    /\ reports = {}

\* ----------------------------------------------------------------- driver
file == rmapi_file_list[idx]
rmdoc_file_path == rmdoc_path(file)
final_pdf_path == final_pdf_path_of(rmdoc_file_path)

Report(what, detail) == reports' = reports \cup {<<idx, what, detail>>}

\* rmapi_find(): the listing text, or None when the command fails
RmapiFind ==
    /\ pc = "find"
    /\ \/ rmapi_find_out' = listing
       \/ rmapi_find_out' = None
    /\ pc' = "parse"
    /\ UNCHANGED <<inputVars, rmapi_dir_list, rmapi_file_list, di, idx,
                   diskVars, fileVars, logVars>>

\* main, lines 393-413: the listing is parsed whatever rmapi_find returned;
\* None has no strip() and the run ends with AttributeError
ParseListing ==
    /\ pc = "parse"
    /\ IF rmapi_find_out = None
        THEN /\ pc' = "crashed"
             /\ UNCHANGED <<rmapi_dir_list, rmapi_file_list>>
        ELSE /\ rmapi_dir_list' = parse_rmapi_find(rmapi_find_out)[1]
             /\ rmapi_file_list' = parse_rmapi_find(rmapi_find_out)[2]
             /\ pc' = "mirror"
    /\ UNCHANGED <<inputVars, rmapi_find_out, di, idx, diskVars, fileVars,
                   logVars>>

\* ensure_directories_exist, lines 134-138: the output root; with
\* exist_ok=True a directory that is already there is no error
EnsureRoot ==
    /\ pc = "mirror"
    /\ \/ /\ localDirs' = localDirs \cup makedirs(<<>>)
          /\ pc' = "mirror_dirs"
          /\ UNCHANGED reports
       \/ /\ <<>> \notin localDirs
          /\ reports' = reports \cup {<<0, "root not created", <<>>>>}
          /\ pc' = "loop"
          /\ UNCHANGED localDirs
    /\ UNCHANGED <<inputVars, rmapi_find_out, rmapi_dir_list, rmapi_file_list,
                   di, idx, rmdocs, outputs, tmpDirs, extractDirs, cwd, uuids,
                   fileVars, mirrorLog, getLog, getFailed, openLog, rmcLog,
                   mergeLog>>

\* the loop over the directories given up at the first failure
EnsureDirectory_stopping_at_failure ==
    /\ pc = "mirror_dirs"
    /\ di <= Len(rmapi_dir_list)
    /\ LET full_path == lstrip(rmapi_dir_list[di], {"/"})
       IN  \/ /\ localDirs' = localDirs \cup makedirs(full_path)
              /\ mirrorLog' = Append(mirrorLog, full_path)
              /\ di' = di + 1
              /\ UNCHANGED reports
           \/ /\ full_path \notin localDirs
              /\ reports' = reports \cup {<<0, "directory not created", full_path>>}
              /\ di' = Len(rmapi_dir_list) + 1
              /\ UNCHANGED <<localDirs, mirrorLog>>
    /\ UNCHANGED <<inputVars, pc, rmapi_find_out, rmapi_dir_list,
                   rmapi_file_list, idx, rmdocs, outputs, tmpDirs, extractDirs,
                   cwd, uuids, fileVars, getLog, getFailed, openLog, rmcLog,
                   mergeLog>>

\* ensure_directories_exist, lines 140-150: one directory of the listing
EnsureDirectory ==
    /\ pc = "mirror_dirs"
    /\ di <= Len(rmapi_dir_list)
    /\ LET full_path == lstrip(rmapi_dir_list[di], {"/"})
       IN  \/ /\ localDirs' = localDirs \cup makedirs(full_path)
              /\ mirrorLog' = Append(mirrorLog, full_path)
              /\ UNCHANGED reports
           \/ /\ full_path \notin localDirs
              /\ reports' = reports \cup {<<0, "directory not created", full_path>>}
              /\ UNCHANGED <<localDirs, mirrorLog>>
    /\ di' = di + 1
    /\ UNCHANGED <<inputVars, pc, rmapi_find_out, rmapi_dir_list,
                   rmapi_file_list, idx, rmdocs, outputs, tmpDirs, extractDirs,
                   cwd, uuids, fileVars, getLog, getFailed, openLog, rmcLog,
                   mergeLog>>

\* returning before the directories of the listing are all handled
EnsureReturn_early ==
    /\ pc = "mirror_dirs"
    /\ pc' = "loop"
    /\ UNCHANGED <<inputVars, rmapi_find_out, rmapi_dir_list, rmapi_file_list,
                   di, idx, diskVars, fileVars, logVars>>

\* ensure_directories_exist returns once the loop of line 140 is over
EnsureReturn ==
    /\ pc = "mirror_dirs"
    /\ di > Len(rmapi_dir_list)
    /\ pc' = "loop"
    /\ UNCHANGED <<inputVars, rmapi_find_out, rmapi_dir_list, rmapi_file_list,
                   di, idx, diskVars, fileVars, logVars>>

\* main, line 419: the loop is over
Finish ==
    /\ pc = "loop"
    /\ idx > Len(rmapi_file_list)
    /\ pc' = "done"
    /\ UNCHANGED <<inputVars, rmapi_find_out, rmapi_dir_list, rmapi_file_list,
                   di, idx, diskVars, fileVars, logVars>>

\* ---------------------------------------------------------- rmapi_download
\* lines 163-182: the working directory is made and entered
DownloadBegin ==
    /\ pc = "loop"
    /\ idx <= Len(rmapi_file_list)
    /\ uuids' = uuids + 1
    /\ original_dir' = cwd
    /\ temp_dir' = uuids + 1
    /\ tmpDirs' = tmpDirs \cup {uuids + 1}
    /\ cwd' = <<"tmp", uuids + 1>>
    /\ pc' = "get"
    /\ UNCHANGED <<inputVars, rmapi_find_out, rmapi_dir_list, rmapi_file_list,
                   di, idx, localDirs, rmdocs, outputs, extractDirs,
                   temp_extract_dir, walk, content_data, page_ids, pi,
                   pdf_pages, made, logVars>>

\* the working directory restored only when the archive was moved
DownloadFinally_without_chdir_on_failure(how) ==
    /\ cwd' = IF how = "moved" THEN original_dir ELSE cwd
    /\ tmpDirs' = download_finally(tmpDirs, temp_dir, how)

\* what every way out of the try block of rmapi_download does (lines 213-218)
DownloadFinally(how) ==
    /\ cwd' = original_dir
    /\ tmpDirs' = download_finally(tmpDirs, temp_dir, how)

\* lines 186-196: 'rmapi get'; a non-zero exit returns from rmapi_download,
\* and main goes on to process_rmdoc_file (line 427)
RmapiGet ==
    /\ pc = "get"
    /\ getLog' = Append(getLog, idx)
    /\ \/ /\ pc' = "relocate"
          /\ UNCHANGED <<cwd, tmpDirs, getFailed, reports>>
       \/ /\ getFailed' = getFailed \cup {idx}
          /\ Report("fetch failed", file)
          /\ DownloadFinally("fetch failed")
          /\ pc' = "process"
    /\ UNCHANGED <<inputVars, rmapi_find_out, rmapi_dir_list, rmapi_file_list,
                   di, idx, localDirs, rmdocs, outputs, extractDirs, uuids,
                   fileVars, mirrorLog, openLog, rmcLog, mergeLog>>

\* lines 199-208: the destination's parent is made and the archive moved there;
\* OSError and shutil.Error are not caught and end the run after the finally
Relocate ==
    /\ pc = "relocate"
    /\ \/ /\ dirname(rmdoc_file_path) \notin localDirs
          /\ DownloadFinally("makedirs failed")
          /\ pc' = "crashed"
          /\ UNCHANGED <<localDirs, rmdocs>>
       \/ /\ localDirs' = localDirs \cup makedirs(dirname(rmdoc_file_path))
          /\ DownloadFinally("move failed")
          /\ pc' = "crashed"
          /\ UNCHANGED rmdocs
       \/ /\ localDirs' = localDirs \cup makedirs(dirname(rmdoc_file_path))
          /\ rmdocs' = Put(rmdocs, rmdoc_file_path, cloud[file])
          /\ DownloadFinally("moved")
          /\ pc' = "process"
    /\ UNCHANGED <<inputVars, rmapi_find_out, rmapi_dir_list, rmapi_file_list,
                   di, idx, outputs, extractDirs, uuids, fileVars, logVars>>

\* ------------------------------------------------------ process_rmdoc_file
\* a missing manifest raising where the code returns
ProcessReturn_raising_without_manifest(dirs, how) ==
    /\ extractDirs' = process_finally(dirs, temp_extract_dir, how)
    /\ idx' = IF how = "no manifest" THEN idx ELSE idx + 1
    /\ pc' = IF how = "no manifest" THEN "crashed" ELSE "loop"

\* the finally block (lines 365-369) on a return: main takes the next file
ProcessReturn(dirs, how) ==
    /\ extractDirs' = process_finally(dirs, temp_extract_dir, how)
    /\ idx' = idx + 1
    /\ pc' = "loop"

\* the finally block on an exception: nothing catches it and the run ends
ProcessRaise(dirs, how) ==
    /\ extractDirs' = process_finally(dirs, temp_extract_dir, how)
    /\ idx' = idx
    /\ pc' = "crashed"

\* lines 258-270: the archive is opened and extracted into temp_extract_<uuid>
Extract ==
    /\ pc = "process"
    /\ LET dir == [in |-> dirname(rmdoc_file_path), id |-> uuids + 1]
       IN  /\ temp_extract_dir' = dir
           /\ uuids' = uuids + 1
           /\ IF rmdoc_file_path \notin DOMAIN rmdocs
               THEN \* zipfile.ZipFile raises FileNotFoundError
                    /\ extractDirs' = process_finally(extractDirs, dir, "no archive")
                    /\ pc' = "crashed"
                    /\ UNCHANGED <<walk, openLog>>
               ELSE /\ openLog' = Append(openLog, idx)
                    /\ \/ \* not a zip archive, or extraction fails half-way
                          /\ extractDirs' =
                                process_finally(extractDirs \cup {dir}, dir, "bad archive")
                          /\ pc' = "crashed"
                          /\ UNCHANGED walk
                       \/ /\ extractDirs' = extractDirs \cup {dir}
                          /\ walk' = rmdocs[rmdoc_file_path].walk
                          /\ pc' = "classify"
    /\ content_data' = NoManifest
    /\ page_ids' = <<>>
    /\ pi' = 1
    /\ pdf_pages' = <<>>
    /\ made' = {}
    /\ UNCHANGED <<inputVars, rmapi_find_out, rmapi_dir_list, rmapi_file_list,
                   di, idx, localDirs, rmdocs, outputs, tmpDirs, cwd, temp_dir,
                   original_dir,
                   mirrorLog, getLog, getFailed, rmcLog, mergeLog, reports>>

\* lines 272-302 and 346-363: the manifest is found and loaded, and the
\* archive is copied (embedded document), passed through (KeyError) or
\* handed to the page loop
Classify ==
    /\ pc = "classify"
    /\ LET content_file == find_content(walk)
           manifest == rmdocs[rmdoc_file_path].manifest
           got == page_ids_of(manifest)
           original_file == find_original(walk)
       IN  IF content_file = None
             THEN /\ Report("no manifest", <<>>)
                  /\ ProcessReturn(extractDirs, "no manifest")
                  /\ UNCHANGED <<content_data, page_ids, outputs>>
           ELSE IF manifest.shape = "invalid"
             THEN /\ ProcessRaise(extractDirs, "JSONDecodeError")
                  /\ UNCHANGED <<content_data, page_ids, outputs, reports>>
           ELSE IF has_embedded_pdf(walk, content_file)
             THEN /\ content_data' = manifest
                  /\ outputs' = Put(outputs, final_pdf_path,
                                    [kind |-> "copy",
                                     of |-> stem(content_file) \o PDF,
                                     by |-> idx])
                  /\ ProcessReturn(extractDirs, "embedded")
                  /\ UNCHANGED <<page_ids, reports>>
           ELSE IF got.err = "none"
             THEN /\ content_data' = manifest
                  /\ page_ids' = page_loop_order(got.ids, walk)
                  /\ pc' = "pages"
                  /\ UNCHANGED <<idx, extractDirs, outputs, reports>>
           ELSE IF got.err = "KeyError"
             THEN /\ content_data' = manifest
                  /\ IF original_file # None
                       THEN /\ outputs' = Put(outputs, final_pdf_path,
                                              [kind |-> "copy",
                                               of |-> original_file,
                                               by |-> idx])
                            /\ UNCHANGED reports
                       ELSE /\ Report("no original file", <<>>)
                            /\ UNCHANGED outputs
                  /\ ProcessReturn(extractDirs, "passthrough")
                  /\ UNCHANGED page_ids
           ELSE /\ content_data' = manifest
                /\ ProcessRaise(extractDirs, "TypeError")
                /\ UNCHANGED <<page_ids, outputs, reports>>
    /\ UNCHANGED <<inputVars, rmapi_find_out, rmapi_dir_list, rmapi_file_list,
                   di, localDirs, rmdocs, tmpDirs, cwd, uuids, temp_dir,
                   original_dir,
                   temp_extract_dir, walk, pi, pdf_pages, made, mirrorLog,
                   getLog, getFailed, openLog, rmcLog, mergeLog>>

\* lines 306-336: one page id of the manifest
ConvertPage ==
    /\ pc = "pages"
    /\ pi <= Len(page_ids)
    /\ LET page_id == page_ids[pi]
           rm_file_path == find_rm(walk, page_id)
           pdf_page_path == pdf_page_path_of(page_id)
           Call(ok) == Append(rmcLog, [file |-> idx, page |-> page_id,
                                       source |-> rm_file_path, ok |-> ok])
       IN  IF rm_file_path = None
             THEN /\ Report("page source missing", page_id)
                  /\ pi' = pi + 1
                  /\ UNCHANGED <<pc, idx, extractDirs, pdf_pages, made, rmcLog>>
             ELSE \/ \* 'rmc' exits 0 and has written the page
                     /\ pdf_pages' = append_page(pdf_pages, pdf_page_path, TRUE)
                     /\ made' = made \cup {pdf_page_path}
                     /\ rmcLog' = Call(TRUE)
                     /\ pi' = pi + 1
                     /\ UNCHANGED <<pc, idx, extractDirs, reports>>
                  \/ \* 'rmc' exits non-zero: CalledProcessError, continue
                     /\ pdf_pages' = append_page(pdf_pages, pdf_page_path, FALSE)
                     /\ rmcLog' = Call(FALSE)
                     /\ Report("conversion failed", page_id)
                     /\ pi' = pi + 1
                     /\ UNCHANGED <<pc, idx, extractDirs, made>>
                  \/ \* 'rmc' is not installed: FileNotFoundError is not caught
                     /\ pdf_pages' = append_page(pdf_pages, pdf_page_path, FALSE)
                     /\ ProcessRaise(extractDirs, "FileNotFoundError")
                     /\ UNCHANGED <<pi, made, rmcLog, reports>>
    /\ UNCHANGED <<inputVars, rmapi_find_out, rmapi_dir_list, rmapi_file_list,
                   di, localDirs, rmdocs, outputs, tmpDirs, cwd, uuids,
                   temp_dir, original_dir, temp_extract_dir, walk, content_data,
                   page_ids,
                   mirrorLog, getLog, getFailed, openLog, mergeLog>>

\* merge_pdfs (lines 222-243): every file of pdf_list is read, then the
\* document is written; any exception is caught and reported
merge_can_succeed(pdf_list, tree, written) ==
    \A k \in 1..Len(pdf_list) : exists_at_root(tree, written, pdf_list[k])

\* lines 338-344: the page loop is over
Merge ==
    /\ pc = "pages"
    /\ pi > Len(page_ids)
    /\ IF pdf_pages = <<>>
         THEN /\ Report("no pages", <<>>)
              /\ UNCHANGED <<outputs, mergeLog>>
         ELSE \/ /\ merge_can_succeed(pdf_pages, walk, made)
                 /\ outputs' = Put(outputs, final_pdf_path,
                                   [kind |-> "merged", of |-> pdf_pages,
                                    by |-> idx])
                 /\ mergeLog' = Append(mergeLog, [file |-> idx,
                                                  pdf_list |-> pdf_pages,
                                                  ok |-> TRUE])
                 /\ UNCHANGED reports
              \/ /\ mergeLog' = Append(mergeLog, [file |-> idx,
                                                  pdf_list |-> pdf_pages,
                                                  ok |-> FALSE])
                 /\ Report("merge failed", <<>>)
                 /\ UNCHANGED outputs
    /\ ProcessReturn(extractDirs, "merge")
    /\ UNCHANGED <<inputVars, rmapi_find_out, rmapi_dir_list, rmapi_file_list,
                   di, localDirs, rmdocs, tmpDirs, cwd, uuids, temp_dir,
                   original_dir,
                   temp_extract_dir, walk, content_data, page_ids, pi,
                   pdf_pages, made, mirrorLog, getLog, getFailed, openLog,
                   rmcLog>>

\* ------------------------------------------------------------ specification
Next ==
    \/ RmapiFind
    \/ ParseListing
    \/ EnsureRoot
    \/ EnsureDirectory
    \/ EnsureReturn
    \/ DownloadBegin
    \/ RmapiGet
    \/ Relocate
    \/ Extract
    \/ Classify
    \/ ConvertPage
    \/ Merge
    \/ Finish

Spec == Init /\ [][Next]_vars

NextProcess ==
    \/ Extract
    \/ Classify
    \/ ConvertPage
    \/ Merge

SpecProcess == InitProcess /\ [][NextProcess]_vars

NextParse ==
    \/ RmapiFind
    \/ ParseListing

SpecParse == InitParse /\ [][NextParse]_vars

\* ------------------------------------------------------------------ claims
path_of(i) == rmdoc_path(rmapi_file_list[i])
document_of(i) == final_pdf_path_of(path_of(i))
written_by(i) == {p \in DOMAIN outputs : outputs[p].by = i}

\* C1: a file whose 'rmapi get' exited non-zero is abandoned (its archive is
\* not opened, no document is written for it) and does not end the run.
C1_FetchFailureIsolated ==
    \A i \in getFailed :
        /\ i \notin Range(openLog)
        /\ written_by(i) = {}
        /\ ~(pc = "crashed" /\ idx = i)

\* C3: whenever process_rmdoc_file is not between extraction and its finally
\* block, no temp_extract_<uuid> directory exists.
C3_ExtractionDirRemoved ==
    pc \notin {"classify", "pages"} => extractDirs = {}

\* a page conversion failed mid-sequence, processing is over, the directory
\* that was extracted into is gone
C3_Witness ==
    /\ pc = "loop"
    /\ Len(openLog) = 1
    /\ Len(rmcLog) = 3
    /\ ~rmcLog[2].ok
    /\ extractDirs = {}

\* C4: whenever rmapi_download is not running, no working directory exists.
C4_WorkDirRemoved ==
    pc \notin {"get", "relocate"} => tmpDirs = {}

\* the relocation of the second file failed, and its working directory is gone
C4_Witness ==
    /\ pc = "crashed"
    /\ idx = 2
    /\ temp_dir = uuids
    /\ idx \notin getFailed
    /\ Len(getLog) = 2
    /\ tmpDirs = {}

\* the path segments of a remote path
segments(p) == {c \in Range(split(p, "/")) : c # <<>>}
Ignored(dir) == segments(dir) \cap args.ignore_dirs # {}
Included(dir) == args.sync_dirs # {} => segments(dir) \cap args.sync_dirs # {}

\* C10: no directory is mirrored and no file fetched under a path with a
\* segment equal to an ignore value; with sync values given, only paths with
\* a segment equal to one of them are mirrored and fetched.
C10_FiltersApplied ==
    /\ \A k \in 1..Len(mirrorLog) :
            ~Ignored(mirrorLog[k]) /\ Included(mirrorLog[k])
    /\ \A k \in 1..Len(getLog) :
            LET dir == dirname(rmapi_file_list[getLog[k]])
            IN  ~Ignored(dir) /\ Included(dir)

\* --------------------------------------------- claims on one archive
archive_of(i) == rmdocs[path_of(i)]
manifest_ids(i) == archive_of(i).manifest.ids
pdf_paths(ids) == [j \in 1..Len(ids) |-> ids[j] \o PDF]
calls_for(log, i) == SelectSeq(log, LAMBDA c : c.file = i)

\* process_rmdoc_file(file i) opened the archive and has returned
Returned(i) == i \in Range(openLog) /\ i < idx

\* s can be obtained from t by leaving elements out
RECURSIVE IsSubseq(_, _)
IsSubseq(s, t) ==
    IF s = <<>> THEN TRUE
    ELSE IF t = <<>> THEN FALSE
    ELSE IF Head(s) = Head(t) THEN IsSubseq(Tail(s), Tail(t))
    ELSE IsSubseq(s, Tail(t))

\* the entries of an archive, and what the claims say about them
entries(i) == Range(walk_paths(archive_of(i).walk))
manifest_entries(i) == {p \in entries(i) : endswith(p, CONTENT)}
has_source(i, id) ==
    \E p \in entries(i) : startswith(basename(p), id) /\ endswith(p, RM)
pdf_at_root(i) ==
    \E m \in manifest_entries(i) : stem(m) \o PDF \in entries(i)
pdf_anywhere(i) ==
    {p \in entries(i) :
        \E m \in manifest_entries(i) : basename(p) = stem(m) \o PDF}
Native(i) ==
    /\ manifest_entries(i) # {}
    /\ ~pdf_at_root(i)
    /\ archive_of(i).manifest.shape = "pages"

\* C2: the sequence handed to merge_pdfs holds a page's path only if 'rmc'
\* succeeded for that page: it is the sequence of the converted pages.
C2_MergedOnlyConverted ==
    \A k \in 1..Len(mergeLog) :
        LET good == SelectSeq(calls_for(rmcLog, mergeLog[k].file),
                              LAMBDA c : c.ok)
        IN  mergeLog[k].pdf_list = [j \in 1..Len(good) |-> good[j].page \o PDF]

\* C5: the page sequence being built, every sequence handed to merge_pdfs and
\* every merged document follow the order of the manifest's page ids.
C5_PageOrderIsManifestOrder ==
    /\ pc = "pages" => IsSubseq(pdf_pages, pdf_paths(manifest_ids(idx)))
    /\ \A k \in 1..Len(mergeLog) :
            IsSubseq(mergeLog[k].pdf_list,
                     pdf_paths(manifest_ids(mergeLog[k].file)))
    /\ \A p \in DOMAIN outputs :
            outputs[p].kind = "merged" =>
                IsSubseq(outputs[p].of, pdf_paths(manifest_ids(outputs[p].by)))

\* manifest [ab, a, b], sources enumerated a, b, ab: merged as ab, a, b
C5_Witness ==
    /\ pc = "loop"
    /\ Returned(1)
    /\ manifest_ids(1) = << <<"a", "b">>, <<"a">>, <<"b">> >>
    /\ walk = Walk(<<Stem \o CONTENT, Stem \o METADATA>>,
                   << <<"a">> \o RM, <<"b">> \o RM, <<"a", "b">> \o RM >>)
    /\ document_of(1) \in DOMAIN outputs
    /\ outputs[document_of(1)].of = pdf_paths(manifest_ids(1))

\* C6: for a native notebook whose processing has returned, 'rmc' was invoked
\* for exactly the page ids that have a source, in manifest order; every
\* other page id was reported; merge_pdfs was called (once) exactly when some
\* page has a source, with those pages in manifest order, and a merged
\* document holds exactly them.
C6_MissingPagesOmitted ==
    \A i \in 1..Len(rmapi_file_list) :
        Returned(i) /\ Native(i) =>
            LET present == SelectSeq(manifest_ids(i),
                                     LAMBDA id : has_source(i, id))
                rmc == calls_for(rmcLog, i)
                merges == calls_for(mergeLog, i)
            IN  /\ [j \in 1..Len(rmc) |-> rmc[j].page] = present
                /\ \A id \in Range(manifest_ids(i)) :
                        ~has_source(i, id) =>
                            <<i, "page source missing", id>> \in reports
                /\ Len(merges) = IF present = <<>> THEN 0 ELSE 1
                /\ \A k \in 1..Len(merges) :
                        merges[k].pdf_list = pdf_paths(present)
                /\ \A p \in written_by(i) :
                        /\ outputs[p].kind = "merged"
                        /\ outputs[p].of = pdf_paths(present)

\* manifest [a, b, ab] without a source for b: merged as a, ab
C6_Witness ==
    /\ pc = "loop"
    /\ Returned(1)
    /\ manifest_ids(1) = << <<"a">>, <<"b">>, <<"a", "b">> >>
    /\ ~has_source(1, <<"b">>)
    /\ <<1, "page source missing", <<"b">>>> \in reports
    /\ document_of(1) \in DOMAIN outputs
    /\ outputs[document_of(1)].of = << <<"a">> \o PDF, <<"a", "b">> \o PDF >>

\* C7: an archive with the entry <manifest-stem>.pdf and a manifest with a
\* non-empty page sequence never enters the page loop; once processed, its
\* document is a copy of that entry, and neither 'rmc' nor merge_pdfs ran.
C7_EmbeddedWins ==
    \A i \in Range(openLog) :
        (/\ pdf_at_root(i)
         /\ archive_of(i).manifest.shape = "pages"
         /\ manifest_ids(i) # <<>>) =>
            /\ ~(pc = "pages" /\ idx = i)
            /\ calls_for(rmcLog, i) = <<>>
            /\ calls_for(mergeLog, i) = <<>>
            /\ i < idx =>
                /\ document_of(i) \in DOMAIN outputs
                /\ outputs[document_of(i)].kind = "copy"
                /\ outputs[document_of(i)].by = i
                /\ outputs[document_of(i)].of \in pdf_anywhere(i)

\* x.content, x.pdf and the page source x/a.rm, manifest [a]: x.pdf is copied
C7_Witness ==
    /\ pc = "loop"
    /\ Returned(1)
    /\ walk = Walk(<<Stem \o CONTENT, Stem \o METADATA, Stem \o PDF>>,
                   << <<"a">> \o RM >>)
    /\ manifest_ids(1) = << <<"a">> >>
    /\ outputs[document_of(1)] =
            [kind |-> "copy", of |-> Stem \o PDF, by |-> 1]

\* C8: an archive whose tree holds an entry named <manifest-stem>.pdf, at
\* the root or in a subdirectory, gets a copy of that entry as its document.
C8_EmbeddedAnywhere ==
    \A i \in 1..Len(rmapi_file_list) :
        (/\ Returned(i)
         /\ archive_of(i).manifest.shape # "invalid"
         /\ pdf_anywhere(i) # {}) =>
            /\ document_of(i) \in DOMAIN outputs
            /\ outputs[document_of(i)].kind = "copy"
            /\ outputs[document_of(i)].of \in pdf_anywhere(i)

\* the entries the passthrough may copy, and the first of them in walk order
originals(i) ==
    LET ps == walk_paths(archive_of(i).walk)
    IN  {k \in 1..Len(ps) :
            \A suffix \in {CONTENT, METADATA, PAGEDATA, PDF} :
                ~endswith(ps[k], suffix)}
first_original(i) ==
    walk_paths(archive_of(i).walk)[
        CHOOSE k \in originals(i) : \A m \in originals(i) : k <= m]

\* C9: without an embedded document and with a manifest that lacks the page
\* sequence (the lookup of line 302 raises KeyError), the document is a copy
\* of the first entry ending in none of the four suffixes, and without such
\* an entry an error is reported and no document is written; with the page
\* sequence present, empty or not, no entry is passed through.
C9_Passthrough ==
    \A i \in 1..Len(rmapi_file_list) :
        (Returned(i) /\ manifest_entries(i) # {} /\ ~pdf_at_root(i)) =>
            /\ archive_of(i).manifest.shape \in KeyErrorShapes =>
                IF originals(i) # {}
                    THEN /\ document_of(i) \in DOMAIN outputs
                         /\ outputs[document_of(i)] =
                                [kind |-> "copy", of |-> first_original(i),
                                 by |-> i]
                    ELSE /\ written_by(i) = {}
                         /\ <<i, "no original file", <<>>>> \in reports
            /\ archive_of(i).manifest.shape = "pages" =>
                /\ \A p \in written_by(i) : outputs[p].kind = "merged"
                /\ manifest_ids(i) = <<>> => written_by(i) = {}

\* x.content, x.metadata, r and a page source, no 'cPages': r is copied
C9_Witness ==
    /\ pc = "loop"
    /\ Returned(1)
    /\ archive_of(1).manifest.shape = "noCPages"
    /\ walk = Walk(<<Stem \o CONTENT, Stem \o METADATA, <<"r">>>>,
                   << <<"a">> \o RM >>)
    /\ outputs[document_of(1)] = [kind |-> "copy", of |-> <<"r">>, by |-> 1]

\* ------------------------------------------------- claims on the whole run
\* 'rmapi find' failed (None) or printed nothing
listing_failed == rmapi_find_out = None \/ rmapi_find_out = <<>>
root_failed == <<0, "root not created", <<>>>> \in reports

\* C11: once 'rmapi find' has failed or printed nothing, the run ends without
\* reaching ensure_directories_exist: nothing is created below the output
\* root, nothing is fetched, no archive is opened, and the run does not
\* finish normally.
C11_ListingFailureFatal ==
    (pc # "find" /\ listing_failed) =>
        /\ pc \in {"parse", "mirror", "crashed"}
        /\ mirrorLog = <<>>
        /\ getLog = <<>>
        /\ openLog = <<>>

\* C12: after the creation of the output root has failed, 'rmapi get' is
\* never invoked.
C12_RootFailureFatal ==
    root_failed => getLog = <<>>

\* the conditions of process_rmdoc_file that are fatal to the one file
FatalToFile == {"no manifest", "no original file", "no pages", "merge failed"}
all_files == [k \in 1..Len(rmapi_file_list) |-> k]

\* C13: a missing manifest, a passthrough archive without payload, an archive
\* without any page source and a failed merge are each reported; whenever one
\* of them is reported, process_rmdoc_file has returned and main has taken the
\* next file, and a run that ends normally has fetched every file.
C13_ProcessingFailureIsolated ==
    /\ \A r \in reports : r[2] \in FatalToFile => r[1] < idx
    /\ \A i \in 1..Len(rmapi_file_list) :
            Returned(i) =>
                /\ manifest_entries(i) = {} =>
                        <<i, "no manifest", <<>>>> \in reports
                /\ ( /\ manifest_entries(i) # {}
                     /\ ~pdf_at_root(i)
                     /\ archive_of(i).manifest.shape \in KeyErrorShapes
                     /\ originals(i) = {} ) =>
                        <<i, "no original file", <<>>>> \in reports
                /\ ( /\ Native(i)
                     /\ \A k \in 1..Len(manifest_ids(i)) :
                            ~has_source(i, manifest_ids(i)[k]) ) =>
                        <<i, "no pages", <<>>>> \in reports
    /\ \A k \in 1..Len(mergeLog) :
            ~mergeLog[k].ok => <<mergeLog[k].file, "merge failed", <<>>>> \in reports
    /\ pc = "done" => getLog = all_files

\* the first file has no manifest, the merge of the second failed, and the
\* run went through both and ended normally
C13_Witness ==
    /\ pc = "done"
    /\ getLog = <<1, 2>>
    /\ <<1, "no manifest", <<>>>> \in reports
    /\ <<2, "merge failed", <<>>>> \in reports

\* C14: when no page of a natively drawn archive was produced (its page list is
\* empty, every source is missing or every 'rmc' call failed), 'no pages' is
\* reported, merge_pdfs is not called and no document is written.
C14_ZeroPagesNoMerge ==
    \A i \in 1..Len(rmapi_file_list) :
        ( /\ Returned(i)
          /\ Native(i)
          /\ \A k \in 1..Len(rmcLog) : rmcLog[k].file = i => ~rmcLog[k].ok ) =>
            /\ <<i, "no pages", <<>>>> \in reports
            /\ calls_for(mergeLog, i) = <<>>
            /\ written_by(i) = {}

\* C15: before the first 'rmapi get', ensure_directories_exist has gone through
\* every directory of the listing (or given up at the output root) and has
\* returned; files are fetched in listing order, and while a file is fetched
\* every earlier file has been fetched and processed and no extraction
\* directory is left.
C15_MirrorBeforeFetchInOrder ==
    /\ (getLog # <<>> \/ pc \in {"get", "relocate"}) =>
            /\ pc \notin {"find", "parse", "mirror", "mirror_dirs"}
            /\ root_failed \/ di = Len(rmapi_dir_list) + 1
    /\ \A k \in 1..Len(getLog) : getLog[k] = k
    /\ pc \in {"get", "relocate"} =>
            /\ extractDirs = {}
            /\ Len(getLog) \in {idx - 1, idx}
            /\ \A j \in 1..(idx - 1) : j \in Range(openLog)
    /\ pc \in {"process", "classify", "pages"} => Len(getLog) = idx

\* the second file is being fetched after the directories were mirrored and
\* the first file was fetched and processed
C15_Witness ==
    /\ pc = "relocate"
    /\ getLog = <<1, 2>>
    /\ Len(mirrorLog) = 2
    /\ openLog = <<1>>
    /\ extractDirs = {}

mirror_over == pc \notin {"find", "parse", "mirror", "mirror_dirs"}
local_dir(k) == lstrip(rmapi_dir_list[k], {"/"})

\* C19: a failure at the output root is reported and no directory of the
\* listing is attempted; otherwise every directory of the listing is
\* attempted, each one either created with its ancestors or reported, whatever
\* happened to the ones before it; a directory that is already there is not
\* reported; and mirroring the created directories once more would leave the
\* tree as it is.
C19_MirrorTolerance ==
    /\ root_failed =>
            /\ di = 1
            /\ mirrorLog = <<>>
            /\ \A r \in reports : r[2] # "directory not created"
    /\ \A k \in 1..(di - 1) :
            \/ /\ local_dir(k) \in Range(mirrorLog)
               /\ makedirs(local_dir(k)) \subseteq localDirs
            \/ <<0, "directory not created", local_dir(k)>> \in reports
    /\ (mirror_over /\ ~root_failed /\ rmapi_find_out # None) =>
            di = Len(rmapi_dir_list) + 1
    /\ (pc \in {"mirror", "mirror_dirs"} \/ (pc = "loop" /\ idx = 1)) =>
            /\ root_failed => <<>> \notin localDirs
            /\ \A k \in 1..(di - 1) :
                    <<0, "directory not created", local_dir(k)>> \in reports
                        => local_dir(k) \notin localDirs
    /\ \A k \in 1..Len(mirrorLog) :
            localDirs \cup makedirs(mirrorLog[k]) = localDirs

\* the first directory could not be created, and the second one was created
\* all the same
C19_Witness ==
    /\ Len(rmapi_dir_list) = 2
    /\ pc = "loop"
    /\ <<0, "directory not created", local_dir(1)>> \in reports
    /\ mirrorLog = <<local_dir(2)>>
    /\ makedirs(local_dir(2)) \subseteq localDirs

\* C20: whenever rmapi_download is not running, the working directory is the
\* one the program was started in.
C20_WorkingDirectoryRestored ==
    pc \notin {"get", "relocate"} => cwd = StartDir

\* 'rmapi get' of the second file failed and the working directory is back
C20_Witness ==
    /\ pc = "process"
    /\ idx = 2
    /\ idx \in getFailed
    /\ original_dir = StartDir
    /\ cwd = original_dir

\* C18: every document written for a file is at the file's remote path with
\* its leading '/' characters stripped and '.pdf' added, below the output
\* root, also when the file's name contains '.rmdoc'.
C18_FinalOutputPath ==
    \A p \in DOMAIN outputs :
        outputs[p].by >= 1 =>
            p = lstrip(rmapi_file_list[outputs[p].by], {"/"}) \o PDF

\* ------------------------------------------------- claims on the parser
\* the paths of the lines of a text that carry a tag, in the order of the text
tagged_paths(lines, tag) ==
    LET hit == SelectSeq(lines, LAMBDA l : startswith(l, tag))
    IN  [k \in 1..Len(hit) |-> SubSeq(hit[k], Len(tag) + 1, Len(hit[k]))]
recognised(lines) ==
    {k \in 1..Len(lines) :
        startswith(lines[k], TAG_D) \/ startswith(lines[k], TAG_F)}
partitions(lines) ==
    /\ rmapi_dir_list = tagged_paths(lines, TAG_D)
    /\ rmapi_file_list = tagged_paths(lines, TAG_F)
    /\ Len(rmapi_dir_list) + Len(rmapi_file_list) = Cardinality(recognised(lines))
parsed == pc = "mirror"

\* C16 as stated: the directories are the paths of the lines of the listing
\* text tagged '[d] ' and the files those of the lines tagged '[f] ', each in
\* the order of the text; every other line adds to neither, and the empty
\* text gives two empty sequences.
C16_ListingPartition ==
    parsed =>
        /\ partitions(split(rmapi_find_out, NL))
        /\ rmapi_find_out = <<>> => rmapi_dir_list = <<>> /\ rmapi_file_list = <<>>

\* C16, amended: the same of the lines of the text from which leading and
\* trailing whitespace was stripped first.
C16_ListingPartitionOfStrippedText ==
    parsed =>
        /\ partitions(split(strip(rmapi_find_out), NL))
        /\ rmapi_find_out = <<>> => rmapi_dir_list = <<>> /\ rmapi_file_list = <<>>

\* a file and a directory, with the newline that ends the output of
\* 'rmapi find'
C16_Witness ==
    /\ parsed
    /\ rmapi_find_out = text_of(<<TAG_F \o pR, TAG_D \o pN>>) \o <<NL>>
    /\ rmapi_dir_list = <<pN>>
    /\ rmapi_file_list = <<pR>>

\* the parsed sequences written out again, directories first
tag_all(paths, tag) == [k \in 1..Len(paths) |-> tag \o paths[k]]
written_back ==
    text_of(tag_all(rmapi_dir_list, TAG_D) \o tag_all(rmapi_file_list, TAG_F))
last_written ==
    LET paths == rmapi_dir_list \o rmapi_file_list IN paths[Len(paths)]

\* C17 as stated: parsing the written-out sequences gives the same two
\* sequences, whatever the paths.
C17_RoundTrip ==
    parsed => parse_rmapi_find(written_back) = <<rmapi_dir_list, rmapi_file_list>>

\* C17, amended: it does so when the path written last is not empty and does
\* not end in whitespace (or nothing was parsed).
C17_RoundTripOfCleanLastPath ==
    ( /\ parsed
      /\ rmapi_dir_list \o rmapi_file_list # <<>> =>
            /\ last_written # <<>>
            /\ last_written[Len(last_written)] \notin Whitespace ) =>
        parse_rmapi_find(written_back) = <<rmapi_dir_list, rmapi_file_list>>

\* an empty path and a path ending in a blank, written before a last path
\* that starts with a blank: all three come back
C17_Witness ==
    /\ parsed
    /\ rmapi_dir_list = <<pN \o <<" ">>>>
    /\ rmapi_file_list = <<<<>>, <<" ", "R">>>>
    /\ parse_rmapi_find(written_back) = <<rmapi_dir_list, rmapi_file_list>>

====
